---- MODULE Spec2Model ----
(***************************************************************************)
(* Skincare concierge: the orchestrator's turn loop (safety gate, intent   *)
(* classification, dispatch, plan/confirm/execute of calendar reminders),  *)
(* the reminder store, the external calendar and the web socket endpoint   *)
(* that drives the orchestrator.                                           *)
(*                                                                         *)
(* Texts are TLA+ strings; lower(), `in` and == on them are computed       *)
(* character by character as Python computes them.  Python's None is the   *)
(* record None; a dict is a record or a function; a list is a sequence.    *)
(***************************************************************************)
EXTENDS Integers, Sequences, FiniteSets, TLC

(***************************************************************************)
(* Bounds of the model.                                                    *)
(***************************************************************************)
MaxTurns == 3

MaxGateTurns == 2

MaxUserTurns == 2

MaxClassifyTurns == 2

MaxCalls == 3

MaxSearches == 2

MaxSharedTurns == 4

(***************************************************************************)
(* Python values.                                                          *)
(***************************************************************************)
None == [none |-> TRUE]

Get(d, k, default) == IF k \in DOMAIN d THEN d[k] ELSE default

UpperChars == "ABCDEFGHIJKLMNOPQRSTUVWXYZ"
LowerChars == "abcdefghijklmnopqrstuvwxyz"

\* str.lower() on one character.
LowerChar(c) ==
    IF \E i \in 1..Len(UpperChars) : SubSeq(UpperChars, i, i) = c
    THEN LET i == CHOOSE j \in 1..Len(UpperChars) : SubSeq(UpperChars, j, j) = c
         IN  SubSeq(LowerChars, i, i)
    ELSE c

\* str.lower()
RECURSIVE Lower(_)
Lower(s) ==
    IF Len(s) = 0 THEN ""
    ELSE LowerChar(SubSeq(s, 1, 1)) \o Lower(SubSeq(s, 2, Len(s)))

\* `p in s` on strings: p is a contiguous substring of s.
Contains(s, p) ==
    \E i \in 1..(Len(s) - Len(p) + 1) : SubSeq(s, i, i + Len(p) - 1) = p

\* [x for x in xs if x in keep]
RECURSIVE FilterIn(_, _)
FilterIn(xs, keep) ==
    IF xs = << >> THEN << >>
    ELSE IF Head(xs) \in keep
         THEN << Head(xs) >> \o FilterIn(Tail(xs), keep)
         ELSE FilterIn(Tail(xs), keep)

Range(xs) == { xs[i] : i \in 1..Len(xs) }

(***************************************************************************)
(* agents/safety_agent.py                                                  *)
(***************************************************************************)
TRIGGER_WORDS ==
    { "bleeding", "severe", "emergency", "rash", "anaphylaxis", "hospital",
      "unconscious", "chest pain", "difficulty breathing", "suicidal",
      "self-harm", "overdose", "seizure", "allergic reaction", "infection",
      "open wound", "burn", "swelling", "vision loss",
      "loss of consciousness" }

DEFLECTION == "Please contact a medical professional. I can't answer this."

\* SafetyAgent.__init__: self.trigger_words = set(trigger_words or TRIGGER_WORDS);
\* every construction in the repository passes no trigger_words.
trigger_words == TRIGGER_WORDS

\* A mutant of intercept: the text is matched without lower().
intercept_no_lower(user_text) ==
    IF \E word \in trigger_words : Contains(user_text, word)
    THEN [ret |-> DEFLECTION, assigns |-> << >>]
    ELSE [ret |-> "safe", assigns |-> << user_text >>]

\* A mutant of intercept: the text is remembered before it is matched.
intercept_always_stores(user_text) ==
    LET lowered == Lower(user_text) IN
    IF \E word \in trigger_words : Contains(lowered, word)
    THEN [ret |-> DEFLECTION, assigns |-> << user_text >>]
    ELSE [ret |-> "safe", assigns |-> << user_text >>]

\* A mutant of intercept: the lowered text is what is remembered.
intercept_stores_lowered(user_text) ==
    LET lowered == Lower(user_text) IN
    IF \E word \in trigger_words : Contains(lowered, word)
    THEN [ret |-> DEFLECTION, assigns |-> << >>]
    ELSE [ret |-> "safe", assigns |-> << lowered >>]

\* SafetyAgent.intercept(user_text): the value returned, and in `assigns` the
\* value assigned to self.last_safe_text (<< >> when nothing is assigned).
intercept(user_text) ==
    LET lowered == Lower(user_text) IN
    IF \E word \in trigger_words : Contains(lowered, word)
    THEN [ret |-> DEFLECTION, assigns |-> << >>]
    ELSE [ret |-> "safe", assigns |-> << user_text >>]

(***************************************************************************)
(* agents/orchestrator_agent.py: classify_intent                           *)
(***************************************************************************)
CALENDAR_KEYS == { "remind", "at ", "schedule", "alarm" }

ING ==
    { "niacinamide", "retinol", "tretinoin", "vitamin c", "salicylic", "bha",
      "aha", "glycolic", "lactic", "arbutin", "kojic", "tranexamic",
      "ceramide" }

PRODUCT_KEYS == { "suggest", "recommend" }

\* A mutant of classify_intent: the ingredient rule is tried before the
\* calendar rule.
classify_intent_ingredient_first(text) ==
    LET t == Lower(text) IN
    IF t \in { "yes", "no", "y", "n" } THEN "confirmation"
    ELSE IF \E i \in ING : Contains(t, i) THEN "evidence"
    ELSE IF \E k \in CALENDAR_KEYS : Contains(t, k) THEN "calendar"
    ELSE IF Contains(t, "profile") THEN "profile"
    ELSE IF Contains(t, "those products") \/ Contains(t, "them")
         THEN "followup_products"
    ELSE IF Contains(t, "that routine") THEN "followup_routine"
    ELSE IF Contains(t, "that evidence") THEN "followup_evidence"
    ELSE IF \E k \in PRODUCT_KEYS : Contains(t, k) THEN "product"
    ELSE IF Contains(t, "routine") THEN "routine"
    ELSE "none"

classify_intent(text) ==
    LET t == Lower(text) IN
    IF t \in { "yes", "no", "y", "n" } THEN "confirmation"
    ELSE IF \E k \in CALENDAR_KEYS : Contains(t, k) THEN "calendar"
    ELSE IF Contains(t, "profile") THEN "profile"
    ELSE IF Contains(t, "those products") \/ Contains(t, "them")
         THEN "followup_products"
    ELSE IF Contains(t, "that routine") THEN "followup_routine"
    ELSE IF Contains(t, "that evidence") THEN "followup_evidence"
    ELSE IF \E i \in ING : Contains(t, i) THEN "evidence"
    ELSE IF \E k \in PRODUCT_KEYS : Contains(t, k) THEN "product"
    ELSE IF Contains(t, "routine") THEN "routine"
    ELSE "none"

(***************************************************************************)
(* tools/reminder_store.py: ReminderStore over self._data["reminders"]     *)
(***************************************************************************)
list_reminders(rems) == rems

find_by_titles(rems, titles) ==
    SelectSeq(rems, LAMBDA r : r.title \in Range(titles))

\* A mutant of delete_by_titles: only the first reminder with one of the
\* titles is deleted.
delete_by_titles_first_only(rems, titles) ==
    IF \E i \in 1..Len(rems) : rems[i].title \in Range(titles)
    THEN LET i == CHOOSE j \in 1..Len(rems) :
                      /\ rems[j].title \in Range(titles)
                      /\ \A k \in 1..(j - 1) : rems[k].title \notin Range(titles)
         IN  SubSeq(rems, 1, i - 1) \o SubSeq(rems, i + 1, Len(rems))
    ELSE rems

\* delete_by_titles: the reminders kept.
delete_by_titles(rems, titles) ==
    SelectSeq(rems, LAMBDA r : r.title \notin Range(titles))

\* add_reminder: the record appended ("id" is a fresh uuid, here a counter).
add_reminder(rems, reminder, id) ==
    Append(rems, [reminder EXCEPT !.id = id])

(***************************************************************************)
(* The text-completion replies the calendar agent parses.  A reply is      *)
(* [shape, data]: "json" parses as a whole to data; "wrapped" has text     *)
(* around an object that parses to data; "nobrace" holds no brace;         *)
(* "badbrace" holds braces around text that does not parse; "error" is a   *)
(* completion call that raises.                                            *)
(***************************************************************************)
\* The try/except around json.loads: [raised, data].
ParseReply(raw) ==
    CASE raw.shape = "error"    -> [raised |-> TRUE, data |-> << >>]
      [] raw.shape = "json"     -> [raised |-> FALSE, data |-> raw.data]
      [] raw.shape = "wrapped"  -> [raised |-> FALSE, data |-> raw.data]
      [] raw.shape = "badbrace" -> [raised |-> TRUE, data |-> << >>]
      [] OTHER                  -> [raised |-> FALSE, data |-> << >>]

(***************************************************************************)
(* agents/calendar_agent.py                                                *)
(***************************************************************************)
\* CalendarAgent._classify_intent: [raised, info]
calendar_classify_intent(raw) ==
    LET p == ParseReply(raw) IN
    [raised |-> p.raised,
     info   |-> [intent        |-> Get(p.data, "intent", "create"),
                 title_hint    |-> Get(p.data, "title_hint", ""),
                 datetime_text |-> Get(p.data, "datetime_text", ""),
                 recurrence    |-> Get(p.data, "recurrence", "DAILY"),
                 all_reminders |-> Get(p.data, "all_reminders", FALSE)]]

\* A mutant of match_titles: the reply's titles are not checked against the
\* stored titles.
match_titles_unfiltered(raw, titles) ==
    LET p == ParseReply(raw) IN
    [raised      |-> p.raised,
     matches     |-> Get(p.data, "matches", << >>),
     confidence  |-> Get(p.data, "confidence", "low"),
     explanation |-> Get(p.data, "explanation", "")]

\* CalendarAgent._match_titles: [raised, matches, confidence, explanation]
match_titles(raw, titles) ==
    LET p == ParseReply(raw) IN
    [raised      |-> p.raised,
     matches     |-> FilterIn(Get(p.data, "matches", << >>), Range(titles)),
     confidence  |-> Get(p.data, "confidence", "low"),
     explanation |-> Get(p.data, "explanation", "")]

\* CalendarAgent._resolve_datetime: the moment a time phrase names.
resolve_datetime(datetime_text) ==
    IF datetime_text = "" THEN "now+10min" ELSE datetime_text

\* [r.get("title", "") for r in existing if r.get("title")]
RECURSIVE TitlesOf(_)
TitlesOf(rems) ==
    IF rems = << >> THEN << >>
    ELSE IF Head(rems).title # ""
         THEN << Head(rems).title >> \o TitlesOf(Tail(rems))
         ELSE TitlesOf(Tail(rems))

\* A mutant of asks_before_deleting: every delete plan asks.
asks_always(matches) == TRUE

\* plan, line 222: bool(match_result["matches"])
asks_before_deleting(matches) == matches # << >>

\* CalendarAgent.plan(question, user_profile) over the stored reminders rems,
\* with the completion replies c (request classifier) and m (title matcher):
\* [raised, plan].
plan(question, user_profile, rems, c, m) ==
    LET ci     == calendar_classify_intent(c)
        intent == ci.info.intent
        titles == TitlesOf(list_reminders(rems))
        mr     == match_titles(m, titles)
    IN
    IF ci.raised THEN [raised |-> TRUE, plan |-> None]
    ELSE IF intent = "list" THEN
        [raised |-> FALSE,
         plan   |-> [question |-> question, intent |-> "list",
                     needs_confirmation |-> FALSE, payload |-> << >>]]
    ELSE IF intent = "delete" THEN
        IF titles = << >> THEN
            [raised |-> FALSE,
             plan   |-> [question |-> question, intent |-> "delete",
                         needs_confirmation |-> FALSE,
                         payload |-> [matches |-> << >>,
                                      explanation |-> "No reminders stored."]]]
        ELSE IF mr.raised THEN [raised |-> TRUE, plan |-> None]
        ELSE
            [raised |-> FALSE,
             plan   |-> [question |-> question, intent |-> "delete",
                         needs_confirmation |-> asks_before_deleting(mr.matches),
                         payload |-> [matches     |-> mr.matches,
                                      confidence  |-> mr.confidence,
                                      explanation |-> mr.explanation]]]
    ELSE
        [raised |-> FALSE,
         plan   |-> [question |-> question, intent |-> "create",
                     needs_confirmation |-> TRUE,
                     payload |->
                        [title |-> IF ci.info.title_hint = ""
                                   THEN "Skincare Reminder"
                                   ELSE ci.info.title_hint,
                         description  |-> [question |-> question,
                                           profile  |-> user_profile],
                         datetime_iso |-> resolve_datetime(ci.info.datetime_text),
                         recurrence   |-> ci.info.recurrence]]]

\* A mutant of delete_events: a failing delete call ends the loop with its
\* exception.
delete_events_stops(called, fail) ==
    [raised |-> (called \cap fail # { }), removed |-> { }]

\* execute, lines 338-346: delete_event is called for the events in `called`
\* and raises for those in `fail`; the exception is caught and the loop goes
\* on.  [raised, removed]: whether an exception leaves the loop, and the
\* events the calendar removed.
delete_events(called, fail) ==
    [raised |-> FALSE, removed |-> called \ fail]

\* A mutant of cancels: only a create plan is cancelled.
cancels_create_only(confirm, intent) == ~confirm /\ intent = "create"

\* execute, line 266: the call is not confirmed and the plan would change
\* something.
cancels(confirm, intent) ==
    ~confirm /\ intent \in { "create", "delete", "update" }

\* A mutant of plan_effect: plan already creates the event of a reminder.
plan_effect_creates_event(rems, evs, ctr) ==
    [reminders |-> rems, events |-> evs \cup { ctr.event + 1 },
     ids |-> [ctr EXCEPT !.event = @ + 1]]

\* What plan() leaves of the stored reminders, the calendar's events and the
\* id counters: of the store it calls list_reminders only (line 203), which
\* hands out a copy of the list, and it does not call the calendar.
plan_effect(rems, evs, ctr) ==
    [reminders |-> rems, events |-> evs, ids |-> ctr]

\* CalendarAgent.execute(plan, confirm, selected_titles) over the stored
\* reminders rems, the external calendar's events evs and the id counters
\* ctr.  x holds what the collaborators do during the call: create_event and
\* save are "ok" or "raise", delete_fail is the set of events whose delete
\* call raises.  selected_titles = None and selected_titles = [] take the same
\* branch of the code and are both << >> here.
\* The value is [raised, result, reminders, events, ids].
execute(pl, confirm, selected_titles, rems, evs, ctr, x) ==
    LET intent   == pl.intent
        question == pl.question
        same     == [raised |-> FALSE, result |-> None, reminders |-> rems,
                     events |-> evs, ids |-> ctr]
    IN
    IF cancels(confirm, intent) THEN
        [same EXCEPT !.result = [question |-> question, intent |-> intent,
                                 status |-> "cancelled",
                                 details |-> "User did not confirm."]]
    ELSE IF intent = "list" THEN
        [same EXCEPT !.result = [question |-> question, intent |-> "list",
                                 status |-> "ok",
                                 reminders |-> list_reminders(rems)]]
    ELSE IF intent = "create" THEN
        LET payload  == pl.payload
            event_id == ctr.event + 1
            rid      == ctr.reminder + 1
            reminder == [id |-> 0,
                         title |-> Get(payload, "title", "Skincare Reminder"),
                         description |-> Get(payload, "description", question),
                         datetime |-> payload.datetime_iso,
                         recurrence |-> Get(payload, "recurrence", "DAILY"),
                         google_event_id |-> event_id]
            added    == add_reminder(rems, reminder, rid)
        IN
        IF x.create_event = "raise" THEN [same EXCEPT !.raised = TRUE]
        ELSE IF x.save = "raise" THEN
            [raised |-> TRUE, result |-> None, reminders |-> added,
             events |-> evs \cup { event_id },
             ids |-> [event |-> event_id, reminder |-> rid]]
        ELSE
            [raised |-> FALSE,
             result |-> [question |-> question, intent |-> "create",
                         status |-> "created", reminder |-> added[Len(added)]],
             reminders |-> added,
             events |-> evs \cup { event_id },
             ids |-> [event |-> event_id, reminder |-> rid]]
    ELSE IF intent = "delete" THEN
        LET matches == Get(pl.payload, "matches", << >>)
            titles_to_delete ==
                IF selected_titles # << >> THEN selected_titles ELSE matches
            to_delete == find_by_titles(rems, titles_to_delete)
            called    == { to_delete[i].google_event_id : i \in 1..Len(to_delete) }
                             \ { 0 }
            deleted_titles == [i \in 1..Len(to_delete) |-> to_delete[i].title]
            kept      == delete_by_titles(rems, deleted_titles)
            de        == delete_events(called, x.delete_fail)
            evs2      == evs \ de.removed
        IN
        IF titles_to_delete = << >> THEN
            [same EXCEPT !.result = [question |-> question, intent |-> "delete",
                                     status |-> "no_matches",
                                     deleted |-> << >>]]
        ELSE IF de.raised THEN
            [raised |-> TRUE, result |-> None, reminders |-> rems,
             events |-> evs2, ids |-> ctr]
        ELSE IF x.save = "raise" THEN
            [raised |-> TRUE, result |-> None, reminders |-> kept,
             events |-> evs2, ids |-> ctr]
        ELSE
            [raised |-> FALSE,
             result |-> [question |-> question, intent |-> "delete",
                         status |-> "deleted",
                         deleted_titles |-> deleted_titles],
             reminders |-> kept, events |-> evs2, ids |-> ctr]
    ELSE
        [same EXCEPT !.result = [question |-> question, intent |-> intent,
                                 status |-> "not_implemented"]]

(***************************************************************************)
(* tools/product_lookup_tool.py                                            *)
(***************************************************************************)
\* any(p in value.lower() for p in patterns), each p lowered; skip_empty: an
\* empty pattern does not count (line 89).
AnyPattern(value, pats, skip_empty) ==
    \E i \in 1..Len(pats) :
        /\ skip_empty => Lower(pats[i]) # ""
        /\ Contains(Lower(value), Lower(pats[i]))

\* lines 61-65: product_type is searched and has patterns.
require_product_type(columns_to_search, patterns) ==
    /\ "product_type" \in Range(columns_to_search)
    /\ "product_type" \in DOMAIN patterns
    /\ Len(patterns["product_type"]) > 0

\* lines 80-94: a pattern of a searched column is in the product's value.
matched_any(product, columns_to_search, patterns) ==
    \E i \in 1..Len(columns_to_search) :
        LET col == columns_to_search[i] IN
        AnyPattern(Get(product, col, ""), Get(patterns, col, << >>), TRUE)

\* A mutant of eligible: a product of the right type is kept only when a
\* pattern of some column matches it too.
eligible_needs_other_match(require, type_matches, other_matches) ==
    (require => type_matches) /\ other_matches

\* lines 71-101: the product goes into the results.
eligible(require, type_matches, other_matches) ==
    IF require THEN type_matches ELSE other_matches

\* lines 104-111: the first product of each name, products without a name
\* dropped.
RECURSIVE unique_results(_, _)
unique_results(results, seen) ==
    IF results = << >> THEN << >>
    ELSE LET name == Head(results).product_name IN
         IF name # "" /\ name \notin seen
         THEN << Head(results) >>
                  \o unique_results(Tail(results), seen \cup { name })
         ELSE unique_results(Tail(results), seen)

\* ProductLookupTool.search_products(columns_to_search, patterns) over the
\* catalog's products and columns.
search_products(products, columns, columns_to_search, patterns) ==
    LET cts     == FilterIn(columns_to_search, Range(columns))
        require == require_product_type(cts, patterns)
        results ==
            SelectSeq(products,
                LAMBDA product :
                    eligible(require,
                             AnyPattern(product.product_type,
                                        Get(patterns, "product_type", << >>),
                                        FALSE),
                             matched_any(product, cts, patterns)))
    IN  unique_results(results, { })

(***************************************************************************)
(* agents/intake_agent.py                                                  *)
(***************************************************************************)
\* IntakeAgent.classify_intent
intake_classify_intent(query) ==
    LET t == Lower(query) IN
    IF \E k \in { "create", "new profile", "sign up" } : Contains(t, k)
    THEN "create"
    ELSE IF \E k \in { "fetch", "show", "view", "display" } : Contains(t, k)
    THEN "fetch"
    ELSE IF \E k \in { "update", "edit", "change", "update profile" } :
                Contains(t, k)
    THEN "update"
    ELSE IF Contains(t, "profile") THEN "fetch"
    ELSE "unknown"

\* A profile is a dict from question to answer; {} is the empty profile.
EmptyProfile == { }

\* dict.update
UpdateDict(old, new) ==
    { kv \in old : \A nv \in new : nv[1] # kv[1] } \cup new

\* IntakeAgent.handle(user_id, query) with the stored profile `profile` and
\* the answers read from the terminal: [result, profile], the reply and the
\* profile stored for the user afterwards.
handle(intent, profile, answers) ==
    CASE intent = "create" ->
            IF profile # EmptyProfile
            THEN [result |-> "Profile already exists", profile |-> profile]
            ELSE [result |-> "Profile created", profile |-> answers]
      [] intent = "fetch" ->
            IF profile = EmptyProfile
            THEN [result |-> "No profile found", profile |-> profile]
            ELSE [result |-> "Profile for user", profile |-> profile]
      [] intent = "update" ->
            IF profile = EmptyProfile
            THEN [result |-> "No profile found", profile |-> profile]
            ELSE [result |-> "Profile updated",
                  profile |-> UpdateDict(profile, answers)]
      [] OTHER -> [result |-> "Sorry, I couldn't understand your request",
                   profile |-> profile]

(***************************************************************************)
(* The inputs: users, texts and what the collaborators reply.              *)
(***************************************************************************)
Users == { "u1", "u2" }

ConfirmTexts == { "Yes", "y", "NO", "n" }

Texts ==
    ConfirmTexts \cup
    { "Remind me at 9 PM", "Is retinol safe?", "Suggest a moisturizer",
      "Create a PM routine", "Create my profile",
      "Which of those products?", "hello", "I have a severe RASH" }

\* One text per trigger phrase, in several letter cases, and texts without one
\* (none of them asks for anything: classify_intent gives "none").
GateTexts ==
    { "", "hello", "I have dry skin and want a moisturizer.", "BURN",
      "I have Bleeding", "SEVERE acne", "an Emergency", "a raSh",
      "Anaphylaxis?", "at the HOSPITAL", "Unconscious", "Chest Pain",
      "DIFFICULTY breathing", "suicidal", "Self-Harm", "OVERDOSE", "Seizure",
      "Allergic Reaction", "INFECTION", "Open Wound", "sunBurn", "Swelling",
      "Vision LOSS", "Loss Of Consciousness", "chest  pain", "burrn",
      "self harm" }

\* Texts that meet one rule of classify_intent, and texts that meet several.
ClassifyTexts ==
    { "Yes", "NO", "Remind me at 9 PM", "Remind me to apply retinol tonight",
      "SCHEDULE my routine", "What evidence supports niacinamide?",
      "Set an alarm for those products", "Remind me to update my profile",
      "Recommend a reminder app", "Create my profile",
      "Which of those products?", "Is retinol safe?",
      "Recommend a retinol serum", "Build a niacinamide routine",
      "Suggest a moisturizer", "Create a PM routine", "hello", "yes please",
      "Does that evidence support treating acne?",
      "Modify that routine by adding niacinamide", "I have a severe RASH" }

AllTexts == Texts \cup GateTexts \cup ClassifyTexts

\* The pure functions, tabulated over the texts (@@ makes the table explicit).
gate_of == [q \in AllTexts |-> intercept(q)] @@ << >>

intent_of == [q \in AllTexts |-> classify_intent(q)] @@ << >>

intake_intent_of == [q \in AllTexts |-> intake_classify_intent(q)] @@ << >>

lower_of == [q \in AllTexts |-> Lower(q)] @@ << >>

AM == "AM Skincare Routine"
PM == "PM Skincare Routine"

\* Replies of the request classifier.
ClassifyReplies ==
    { [shape |-> "json",
       data  |-> [intent |-> "create", title_hint |-> AM,
                  datetime_text |-> "9 PM", recurrence |-> "DAILY",
                  all_reminders |-> FALSE]],
      [shape |-> "nobrace", data |-> << >>],
      [shape |-> "wrapped",
       data  |-> [intent |-> "delete", title_hint |-> "",
                  datetime_text |-> "", recurrence |-> "NONE",
                  all_reminders |-> FALSE]],
      [shape |-> "json", data |-> [intent |-> "list"]],
      [shape |-> "json", data |-> [intent |-> "update", title_hint |-> PM]],
      [shape |-> "error", data |-> << >>] }

\* Replies of the title matcher.
MatchReplies ==
    { [shape |-> "json",
       data  |-> [matches |-> << PM >>, confidence |-> "high",
                  explanation |-> "PM"]],
      [shape |-> "json",
       data  |-> [matches |-> << AM, "Gym", PM >>, confidence |-> "low",
                  explanation |-> "all"]],
      [shape |-> "nobrace", data |-> << >>] }

\* What the external calendar and the store's file do during one execute.
ExecOutcomes ==
    { [create_event |-> "ok", save |-> "ok", delete_fail |-> { }],
      [create_event |-> "raise", save |-> "ok", delete_fail |-> { }],
      [create_event |-> "ok", save |-> "raise", delete_fail |-> { }],
      [create_event |-> "ok", save |-> "ok", delete_fail |-> { 1, 2 }] }

\* The collaborator is not called.
NoReply == [shape |-> "nobrace", data |-> << >>]

NoOutcome == [create_event |-> "ok", save |-> "ok", delete_fail |-> { }]

\* What a handler (evidence, product, routine) does: a result or an exception.
HandlerOutcomes == { "s1", "raise" }

Answers == { { << "Skin type", "dry" >> } }

\* data/reminders.json as loaded by ReminderStore.__init__, and the events
\* of the external calendar at that time.
InitialReminders ==
    << [id |-> 1, title |-> AM, description |-> None, datetime |-> "7 AM",
        recurrence |-> "DAILY", google_event_id |-> 1],
       [id |-> 2, title |-> PM, description |-> None, datetime |-> "9 PM",
        recurrence |-> "DAILY", google_event_id |-> 2] >>

\* data/product_catalog.xlsx as loaded by ProductLookupTool.__init__: its
\* columns and its products (two of them under one name).
Columns == << "product_name", "product_type", "ingredients" >>

Catalog ==
    << [product_name |-> "Hydra Cream", product_type |-> "Moisturizer",
        ingredients |-> "Ceramide, Glycerin"],
       [product_name |-> "Clear Gel", product_type |-> "Face Wash",
        ingredients |-> "Salicylic Acid"],
       [product_name |-> "Hydra Cream", product_type |-> "Night Moisturizer",
        ingredients |-> "Retinol"],
       [product_name |-> "Glow Serum", product_type |-> "SERUM",
        ingredients |-> "Niacinamide, Zinc"] >>

\* The arguments of a search: columns, and patterns per column.
ColumnLists ==
    { << "product_type", "ingredients" >>, << "product_type" >>,
      << "ingredients" >>, << "ingredients", "product_type", "brand" >>,
      << >> }

TypePatterns ==
    { << >>, << "moisturizer" >>, << "SERUM", "wash" >>, << "toner" >>,
      << "" >>, << "Night" >> }

IngredientPatterns ==
    { << >>, << "retinol" >>, << "NIACINAMIDE", "peptide" >>, << "" >> }

PatternDicts ==
    { [product_type |-> tp, ingredients |-> ip] :
          tp \in TypePatterns, ip \in IngredientPatterns }
    \cup { [ingredients |-> ip] : ip \in IngredientPatterns }
    \cup { << >> }

(***************************************************************************)
(* State.                                                                  *)
(***************************************************************************)
VARIABLES
    user_state,           \* OrchestratorAgent.user_state
    conversation_history, \* OrchestratorAgent.conversation_history
    conversation_memory,  \* server.py: conversation_memory
    last_safe_text,       \* SafetyAgent.last_safe_text
    reminders,            \* ReminderStore._data["reminders"]
    events,               \* the events of the external calendar
    ids,                  \* the ids handed out so far (events, reminders)
    profile_db,           \* data/user_profiles.json
    turns,                \* the number of turns taken
    turn,                 \* what the last turn did
    plan_execs,           \* per user: execute calls on the plan last stored as pending
    loop,                 \* the turn the event loop's thread is inside of
    call,                 \* the last direct use of the calendar agent
    lookup                \* the last search of the product catalog

vars == << user_state, conversation_history, conversation_memory,
           last_safe_text, reminders, events, ids, profile_db, turns, turn,
           plan_execs, loop, call, lookup >>

\* OrchestratorAgent._init_user_state: the state a first contact creates.
DefaultState ==
    [profile |-> EmptyProfile, last_routine |-> None, last_products |-> None,
     last_evidence |-> None, pending_calendar_plan |-> None]

init_user_state(us, u) ==
    IF u \in DOMAIN us THEN us ELSE us @@ (u :> DefaultState)

init_history(h, us, u) ==
    IF u \in DOMAIN us THEN h ELSE (u :> << >>) @@ h

\* A mutant of save_state: the session is rebuilt from the defaults around
\* the stored value.
save_state_resets(us, u, key, value) ==
    [us EXCEPT ![u] = [DefaultState EXCEPT ![key] = value]]

\* A mutant of save_state: the value is stored under last_products whatever
\* the key.
save_state_wrong_key(us, u, key, value) ==
    [us EXCEPT ![u] = [@ EXCEPT !["last_products"] = value]]

\* A mutant of save_state: the value is stored in every session, not only in
\* the session of user u.
save_state_every_user(us, u, key, value) ==
    [v \in DOMAIN us |-> [us[v] EXCEPT ![key] = value]]

\* OrchestratorAgent._save_state
save_state(us, u, key, value) ==
    [us EXCEPT ![u] = [@ EXCEPT ![key] = value]]

\* OrchestratorAgent._remember
remember(h, u, user_msg, assistant_msg) ==
    [h EXCEPT ![u] = Append(@, [user |-> user_msg, assistant |-> assistant_msg])]

\* server.py websocket_endpoint: the log after the user's message arrived,
\* and after the reply was sent.
Received(mem, u, q) ==
    LET m == IF u \in DOMAIN mem THEN mem ELSE mem @@ (u :> << >>)
    IN  [m EXCEPT ![u] = Append(@, [role |-> "user", message |-> q])]

Replied(mem, u, q, resp) ==
    [Received(mem, u, q) EXCEPT
        ![u] = Append(@, [role |-> "assistant", message |-> resp])]

NoTurn ==
    [user |-> "", query |-> "", safe |-> "", classified |-> FALSE,
     intent |-> "", handlers |-> { }, executed |-> None, raised |-> FALSE,
     response |-> None]

\* The event loop's thread is in no turn.
Idle == [user |-> "", query |-> ""]

\* The calendar agent has not been used directly.
NoCall ==
    [plan |-> None, reply |-> None, match_reply |-> None, titles |-> << >>,
     executed |-> FALSE,
     confirm |-> TRUE, selected_titles |-> << >>, outcome |-> NoOutcome,
     result |-> None, raised |-> FALSE]

\* The catalog has not been searched.
NoLookup ==
    [columns_to_search |-> << >>, patterns |-> << >>, results |-> << >>]

Init ==
    /\ user_state = << >>
    /\ conversation_history = << >>
    /\ conversation_memory = << >>
    /\ last_safe_text = None
    /\ reminders = InitialReminders
    /\ events = { 1, 2 }
    /\ ids = [event |-> 2, reminder |-> 2]
    /\ profile_db = [u \in Users |-> EmptyProfile]
    /\ turns = 0
    /\ turn = NoTurn
    /\ plan_execs = [u \in Users |-> 0]
    /\ loop = Idle
    /\ call = NoCall
    /\ lookup = NoLookup

(***************************************************************************)
(* One turn: server.py's loop body around OrchestratorAgent.run(u, q).     *)
(* Each action below is one path through run; together they are run.       *)
(***************************************************************************)
\* The part every path shares: session creation, the gate's effect, the
\* server's log and the record of the turn.  us2 is user_state on return.
Turn(u, q, us2, intent, handlers, executed, raised, resp) ==
    /\ turns' = turns + 1
    /\ loop' = Idle
    /\ call' = call
    /\ lookup' = lookup
    /\ user_state' = us2
    /\ conversation_history' = init_history(conversation_history, user_state, u)
    /\ conversation_memory' =
            IF raised THEN Received(conversation_memory, u, q)
            ELSE Replied(conversation_memory, u, q, resp)
    /\ last_safe_text' =
            IF gate_of[q].assigns = << >> THEN last_safe_text
            ELSE [text |-> gate_of[q].assigns[1]]
    /\ turn' = [user |-> u, query |-> q, safe |-> gate_of[q].ret,
                classified |-> (intent # ""), intent |-> intent,
                handlers |-> handlers, executed |-> executed,
                raised |-> raised, response |-> resp]

\* The gate lets the text through.
Safe(q) == gate_of[q].ret = "safe"

Session(u) == init_user_state(user_state, u)

\* run, lines 130-135: the gate blocks the text.
RunUnsafe(u, q) ==
    /\ gate_of[q].ret # "safe"
    /\ Turn(u, q, Session(u), "", { }, None, FALSE,
            [intent |-> "unsafe", message |-> gate_of[q].ret])
    /\ UNCHANGED << reminders, events, ids, profile_db, plan_execs >>

\* run, lines 142-146: a confirmation with nothing pending.
RunConfirmNothing(u, q) ==
    /\ Safe(q)
    /\ intent_of[q] = "confirmation"
    /\ Session(u)[u].pending_calendar_plan = None
    /\ Turn(u, q, Session(u), "confirmation", { }, None, FALSE,
            [intent |-> "none", message |-> "There is nothing to confirm."])
    /\ UNCHANGED << reminders, events, ids, profile_db, plan_execs >>

\* run, lines 148-151: "yes" executes the pending plan.
RunConfirmYes(u, q) ==
    /\ Safe(q)
    /\ intent_of[q] = "confirmation"
    /\ Session(u)[u].pending_calendar_plan # None
    /\ lower_of[q] \in { "yes", "y" }
    /\ \E x \in ExecOutcomes :
         LET pending == Session(u)[u].pending_calendar_plan
             r == execute(pending, TRUE, << >>, reminders, events, ids, x)
         IN
         /\ reminders' = r.reminders
         /\ events' = r.events
         /\ ids' = r.ids
         /\ plan_execs' = [plan_execs EXCEPT ![u] = @ + 1]
         /\ IF r.raised
            THEN Turn(u, q, Session(u), "confirmation", { "execute" }, pending,
                      TRUE, None)
            ELSE Turn(u, q,
                      save_state(Session(u), u, "pending_calendar_plan", None),
                      "confirmation", { "execute" }, pending, FALSE,
                      [intent |-> "calendar", result |-> r.result,
                       message |-> "Reminder set!"])
    /\ UNCHANGED profile_db

\* A mutant of RunConfirmNo: the answer is given and the plan stays pending.
RunConfirmNoKeepsPlan(u, q) ==
    /\ Safe(q)
    /\ intent_of[q] = "confirmation"
    /\ Session(u)[u].pending_calendar_plan # None
    /\ lower_of[q] \in { "no", "n" }
    /\ Turn(u, q, Session(u), "confirmation", { }, None, FALSE,
            [intent |-> "calendar",
             message |-> "Okay, I cancelled the reminder."])
    /\ UNCHANGED << reminders, events, ids, profile_db, plan_execs >>

\* run, lines 153-155: "no" drops the pending plan.
RunConfirmNo(u, q) ==
    /\ Safe(q)
    /\ intent_of[q] = "confirmation"
    /\ Session(u)[u].pending_calendar_plan # None
    /\ lower_of[q] \notin { "yes", "y" }
    /\ lower_of[q] \in { "no", "n" }
    /\ Turn(u, q, save_state(Session(u), u, "pending_calendar_plan", None),
            "confirmation", { }, None, FALSE,
            [intent |-> "calendar",
             message |-> "Okay, I cancelled the reminder."])
    /\ UNCHANGED << reminders, events, ids, profile_db, plan_execs >>

\* handle() reads answers from the terminal.
AsksUser(kind, stored) ==
    \/ kind = "create" /\ stored = EmptyProfile
    \/ kind = "update" /\ stored # EmptyProfile

\* run, lines 160-163: the profile handler, under the intake agent's own
\* classification of the text.  eof: the terminal read of the answers raises.
RunProfile(u, q) ==
    /\ Safe(q)
    /\ intent_of[q] = "profile"
    /\ \E answers \in Answers :
       \E eof \in IF AsksUser(intake_intent_of[q], profile_db[u])
                  THEN BOOLEAN ELSE { FALSE } :
         LET stored == profile_db[u]
             kind   == intake_intent_of[q]
             asks   == AsksUser(kind, stored)
             h      == handle(kind, stored, answers)
         IN
         IF asks /\ eof
         THEN /\ Turn(u, q, Session(u), "profile", { "intake" }, None, TRUE, None)
              /\ UNCHANGED profile_db
         ELSE /\ profile_db' = [profile_db EXCEPT ![u] = h.profile]
              /\ Turn(u, q, save_state(Session(u), u, "profile", h.profile),
                      "profile", { "intake" }, None, FALSE,
                      [intent |-> "profile", result |-> h.result])
    /\ UNCHANGED << reminders, events, ids, plan_execs >>

\* run, lines 168-171: the evidence handler.
RunEvidence(u, q) ==
    /\ Safe(q)
    /\ intent_of[q] = "evidence"
    /\ \E o \in HandlerOutcomes :
         LET ev == [question |-> q, summary |-> o] IN
         IF o = "raise"
         THEN Turn(u, q, Session(u), "evidence", { "evidence" }, None, TRUE, None)
         ELSE Turn(u, q, save_state(Session(u), u, "last_evidence", ev),
                   "evidence", { "evidence" }, None, FALSE,
                   [intent |-> "evidence", evidence |-> ev])
    /\ UNCHANGED << reminders, events, ids, profile_db, plan_execs >>

\* run, lines 176-180: the product handler.
RunProduct(u, q) ==
    /\ Safe(q)
    /\ intent_of[q] = "product"
    /\ \E o \in HandlerOutcomes :
         LET prod == [question |-> q, products |-> o] IN
         IF o = "raise"
         THEN Turn(u, q, Session(u), "product", { "product" }, None, TRUE, None)
         ELSE Turn(u, q, save_state(Session(u), u, "last_products", prod),
                   "product", { "product" }, None, FALSE,
                   [intent |-> "product", products |-> prod])
    /\ UNCHANGED << reminders, events, ids, profile_db, plan_execs >>

\* run, lines 185-189: the routine handler.
RunRoutine(u, q) ==
    /\ Safe(q)
    /\ intent_of[q] = "routine"
    /\ \E o \in HandlerOutcomes :
         LET routine == [question |-> q,
                         user_profile |-> Session(u)[u].profile,
                         steps |-> o] IN
         IF o = "raise"
         THEN Turn(u, q, Session(u), "routine", { "routine" }, None, TRUE, None)
         ELSE Turn(u, q, save_state(Session(u), u, "last_routine", routine),
                   "routine", { "routine" }, None, FALSE,
                   [intent |-> "routine", routine |-> routine])
    /\ UNCHANGED << reminders, events, ids, profile_db, plan_execs >>

\* run, lines 194-198: a reference to the products of an earlier turn.
RunFollowupProducts(u, q) ==
    /\ Safe(q)
    /\ intent_of[q] = "followup_products"
    /\ LET last_prod == Session(u)[u].last_products IN
       Turn(u, q, Session(u), "followup_products", { }, None, FALSE,
            IF last_prod = None
            THEN [message |-> "I don't have previous products to reference."]
            ELSE [intent |-> "followup_products", products |-> last_prod])
    /\ UNCHANGED << reminders, events, ids, profile_db, plan_execs >>

\* run, line 208: the plan becomes the user's pending plan.
store_plan(us, u, pl) == save_state(us, u, "pending_calendar_plan", pl)

\* plan() reaches the title matcher: the request is a deletion and titles are
\* stored.
AsksMatcher(c, rems) ==
    LET ci == calendar_classify_intent(c) IN
    ~ci.raised /\ ci.info.intent = "delete" /\ TitlesOf(rems) # << >>

\* run() reaches line 215: the plan needs no confirmation.
ExecutesAtOnce(q, profile, rems, c, m) ==
    LET p == plan(q, profile, rems, c, m) IN
    ~p.raised /\ ~p.plan.needs_confirmation

\* run, lines 203-216: a calendar request is planned, then stored for
\* confirmation or executed at once.
RunCalendar(u, q) ==
    /\ Safe(q)
    /\ intent_of[q] = "calendar"
    /\ \E c \in ClassifyReplies :
       \E m \in IF AsksMatcher(c, reminders) THEN MatchReplies ELSE { NoReply } :
       \E x \in IF ExecutesAtOnce(q, Session(u)[u].profile, reminders, c, m)
                THEN ExecOutcomes ELSE { NoOutcome } :
         LET p == plan(q, Session(u)[u].profile, reminders, c, m)
             r == execute(p.plan, TRUE, << >>, reminders, events, ids, x)
         IN
         IF p.raised THEN
            /\ Turn(u, q, Session(u), "calendar", { "plan" }, None, TRUE, None)
            /\ UNCHANGED << reminders, events, ids, plan_execs >>
         ELSE IF p.plan.needs_confirmation THEN
            /\ Turn(u, q, store_plan(Session(u), u, p.plan), "calendar",
                    { "plan" }, None, FALSE,
                    [intent |-> "calendar_plan",
                     message |-> "Do you want me to set this reminder? (yes/no)",
                     plan |-> p.plan])
            /\ plan_execs' = [plan_execs EXCEPT ![u] = 0]
            /\ UNCHANGED << reminders, events, ids >>
         ELSE
            /\ reminders' = r.reminders
            /\ events' = r.events
            /\ ids' = r.ids
            /\ UNCHANGED plan_execs
            /\ IF r.raised
               THEN Turn(u, q, Session(u), "calendar", { "plan", "execute" },
                         p.plan, TRUE, None)
               ELSE Turn(u, q, Session(u), "calendar", { "plan", "execute" },
                         p.plan, FALSE,
                         [intent |-> "calendar", result |-> r.result])
    /\ UNCHANGED profile_db

\* run, line 221: no branch took the turn.
RunDefault(u, q) ==
    /\ Safe(q)
    /\ intent_of[q] \in { "none", "followup_routine", "followup_evidence" }
    /\ Turn(u, q, Session(u), intent_of[q], { }, None, FALSE,
            [intent |-> "none",
             message |-> "How can I help with skincare today?"])
    /\ UNCHANGED << reminders, events, ids, profile_db, plan_execs >>

\* One turn of user u with text q.
Run(u, q) ==
    \/ RunUnsafe(u, q)
    \/ RunConfirmNothing(u, q)
    \/ RunConfirmYes(u, q)
    \/ RunConfirmNo(u, q)
    \/ RunProfile(u, q)
    \/ RunEvidence(u, q)
    \/ RunProduct(u, q)
    \/ RunRoutine(u, q)
    \/ RunFollowupProducts(u, q)
    \/ RunCalendar(u, q)
    \/ RunDefault(u, q)

\* One user's conversation over the texts.
Next == \E q \in Texts : turns < MaxTurns /\ Run("u1", q)

Spec == Init /\ [][Next]_vars

\* The gate alone: texts with and without trigger phrases, which the
\* orchestrator blocks or answers by default.
GateUnsafe(q) == turns < MaxGateTurns /\ RunUnsafe("u1", q)

GateDefault(q) == turns < MaxGateTurns /\ RunDefault("u1", q)

NextGate == \E q \in GateTexts : GateUnsafe(q) \/ GateDefault(q)

SpecGate == Init /\ [][NextGate]_vars

\* The calendar agent used directly, as test_calender_agent.py uses it: a
\* plan is made from a question, then executed with the caller's confirm and
\* selected_titles.
Question == "delete my PM reminders?"

AgentProfile == { << "Skin type (e.g., oily, dry, combination)", "dry" >> }

\* Replies of the request classifier, with a request to delete all reminders.
AgentClassifyReplies ==
    ClassifyReplies \cup
    { [shape |-> "json",
       data  |-> [intent |-> "delete", title_hint |-> "",
                  datetime_text |-> "", recurrence |-> "NONE",
                  all_reminders |-> TRUE]],
      [shape |-> "badbrace", data |-> << >>] }

\* Replies of the title matcher, with one whose braces hold no JSON.
AgentMatchReplies ==
    MatchReplies \cup { [shape |-> "badbrace", data |-> << >>] }

\* The selected_titles a caller passes (None and [] are << >>).
Selections == { << >>, << AM >>, << PM >>, << AM, PM >>, << "Gym" >> }

\* plan = agent.plan(question, user_profile)
AgentPlan(c, m) ==
    /\ turns < MaxCalls
    /\ LET p == plan(Question, AgentProfile, reminders, c, m) IN
       call' = [NoCall EXCEPT !.plan = p.plan, !.reply = c,
                              !.match_reply = m,
                              !.titles = TitlesOf(list_reminders(reminders)),
                              !.raised = p.raised]
    /\ LET e == plan_effect(reminders, events, ids) IN
       /\ reminders' = e.reminders
       /\ events' = e.events
       /\ ids' = e.ids
    /\ turns' = turns + 1
    /\ UNCHANGED << user_state, conversation_history, conversation_memory,
                    last_safe_text, profile_db, turn, plan_execs, loop, lookup >>

\* The caller builds a plan of intent "update" itself (CalendarPlan names the
\* intent; plan() makes no such plan).
CallerBuildsPlan ==
    /\ turns < MaxCalls
    /\ call' = [NoCall EXCEPT !.plan = [question |-> Question,
                                        intent |-> "update",
                                        needs_confirmation |-> TRUE,
                                        payload |-> << >>]]
    /\ turns' = turns + 1
    /\ UNCHANGED << user_state, conversation_history, conversation_memory,
                    last_safe_text, reminders, events, ids, profile_db, turn,
                    plan_execs, loop, lookup >>

\* result = agent.execute(plan, confirm=confirm, selected_titles=selected_titles)
AgentExecute(confirm, selected_titles, x) ==
    /\ turns < MaxCalls
    /\ call.plan # None
    /\ LET r == execute(call.plan, confirm, selected_titles, reminders, events,
                        ids, x)
       IN
       /\ reminders' = r.reminders
       /\ events' = r.events
       /\ ids' = r.ids
       /\ call' = [call EXCEPT !.executed = TRUE, !.confirm = confirm,
                               !.selected_titles = selected_titles,
                               !.outcome = x,
                               !.result = r.result, !.raised = r.raised]
    /\ turns' = turns + 1
    /\ UNCHANGED << user_state, conversation_history, conversation_memory,
                    last_safe_text, profile_db, turn, plan_execs, loop, lookup >>

NextAgent ==
    \/ \E c \in AgentClassifyReplies :
       \E m \in IF AsksMatcher(c, reminders)
                THEN AgentMatchReplies ELSE { NoReply } :
           AgentPlan(c, m)
    \/ CallerBuildsPlan
    \/ \E confirm \in BOOLEAN : \E selected_titles \in Selections :
       \E x \in ExecOutcomes :
           AgentExecute(confirm, selected_titles, x)

SpecAgent == Init /\ [][NextAgent]_vars

\* Two users who ask for reminders and confirm them: the reminder store and
\* the calendar behind the one CalendarAgent of the server are theirs in
\* common.
SharedTexts == { "Remind me at 9 PM", "Yes" }

SharedTurn(u, q) ==
    /\ turns < MaxSharedTurns
    /\ \/ RunCalendar(u, q)
       \/ RunConfirmYes(u, q)
       \/ RunConfirmNothing(u, q)

NextShared == \E u \in Users : \E q \in SharedTexts : SharedTurn(u, q)

SpecShared == Init /\ [][NextShared]_vars

\* The product catalog searched directly.
Search(columns_to_search, patterns) ==
    /\ turns < MaxSearches
    /\ lookup' = [columns_to_search |-> columns_to_search,
                  patterns |-> patterns,
                  results |-> search_products(Catalog, Columns,
                                              columns_to_search, patterns)]
    /\ turns' = turns + 1
    /\ UNCHANGED << user_state, conversation_history, conversation_memory,
                    last_safe_text, reminders, events, ids, profile_db, turn,
                    plan_execs, loop, call >>

NextSearch ==
    \E columns_to_search \in ColumnLists : \E patterns \in PatternDicts :
        Search(columns_to_search, patterns)

SpecSearch == Init /\ [][NextSearch]_vars

\* One user's conversation over the texts that meet several rules of
\* classify_intent.
ClassifyTurn(q) == turns < MaxClassifyTurns /\ Run("u1", q)

NextClassify == \E q \in ClassifyTexts : ClassifyTurn(q)

SpecClassify == Init /\ [][NextClassify]_vars

\* Two users on two web sockets of the one server process.  The server runs
\* the socket handlers as coroutines of one event loop.  run() is a coroutine
\* whose calls to the text-completion service and to the external calendar
\* are plain synchronous calls: the one thread of the loop stays inside the
\* call until it returns, and no other coroutine runs meanwhile.
UserTexts ==
    { "Yes", "NO", "Remind me at 9 PM", "Is retinol safe?",
      "Suggest a moisturizer", "Create a PM routine", "Create my profile",
      "Which of those products?", "hello", "I have a severe RASH" }

\* The turn's path through run() reaches a call to the text-completion
\* service (plan, the evidence and the product handler) or to the external
\* calendar (execute on "yes").
CallsOut(u, q) ==
    /\ gate_of[q].ret = "safe"
    /\ \/ intent_of[q] \in { "calendar", "evidence", "product" }
       \/ /\ intent_of[q] = "confirmation"
          /\ lower_of[q] \in { "yes", "y" }
          /\ Session(u)[u].pending_calendar_plan # None

\* The loop delivers u's message and run() enters the external call.  What
\* the lines before the call assign is applied when the turn returns: no
\* other code runs in between to see it.
EnterCall(u, q) ==
    /\ turns < MaxUserTurns
    /\ loop = Idle
    /\ CallsOut(u, q)
    /\ loop' = [user |-> u, query |-> q]
    /\ UNCHANGED << user_state, conversation_history, conversation_memory,
                    last_safe_text, reminders, events, ids, profile_db, turns,
                    turn, plan_execs, call, lookup >>

\* The external call returns (or raises) and the turn runs to its end.
ReturnFromCall(u, q) ==
    /\ loop = [user |-> u, query |-> q]
    /\ Run(u, q)

\* A turn that calls nothing outside the process.
WholeTurn(u, q) ==
    /\ turns < MaxUserTurns
    /\ loop = Idle
    /\ ~CallsOut(u, q)
    /\ Run(u, q)

NextUsers ==
    \E u \in Users : \E q \in UserTexts :
        EnterCall(u, q) \/ ReturnFromCall(u, q) \/ WholeTurn(u, q)

SpecUsers == Init /\ [][NextUsers]_vars

(***************************************************************************)
(* What the claims speak of.                                               *)
(***************************************************************************)
\* A user's session as run() sees it: a user without one gets the defaults.
StateOf(us, u) == IF u \in DOMAIN us THEN us[u] ELSE DefaultState

PendingOf(us, u) == StateOf(us, u).pending_calendar_plan

HistoryOf(h, u) == IF u \in DOMAIN h THEN h[u] ELSE << >>

\* The server's log of a user's messages.
MemoryOf(mem, u) == IF u \in DOMAIN mem THEN mem[u] ELSE << >>

IsYes(q) == lower_of[q] \in { "yes", "y" }

IsNo(q) == lower_of[q] \in { "no", "n" }

\* The step is a turn (not a stuttering step).
TookTurn == turns' = turns + 1

\* The text holds a trigger phrase, whatever the letter case of either.
has_trigger_of ==
    [q \in AllTexts |->
        \E w \in TRIGGER_WORDS : Contains(lower_of[q], Lower(w))] @@ << >>

HasTrigger(q) == has_trigger_of[q]

\* C1: when the pending plan is a create plan that needs confirmation, a
\* "yes"/"y" turn (any letter case) adds exactly one reminder to the store
\* and sets the user's pending plan to none.
C1_YesCreatesOneReminder ==
    [][ LET u == turn'.user
            p == PendingOf(user_state, u)
        IN  (TookTurn /\ IsYes(turn'.query) /\ p # None
                /\ p.intent = "create" /\ p.needs_confirmation)
            => /\ Len(reminders') = Len(reminders) + 1
               /\ PendingOf(user_state', u) = None ]_vars

\* C2: with a plan pending, a "no"/"n" turn (any letter case) sets the
\* pending plan to none, does not call execute, and leaves the reminder store
\* and the external calendar unchanged.
C2_NoClearsWithoutExecuting ==
    [][ LET u == turn'.user IN
        (TookTurn /\ IsNo(turn'.query) /\ PendingOf(user_state, u) # None)
        => /\ PendingOf(user_state', u) = None
           /\ "execute" \notin turn'.handlers
           /\ turn'.executed = None
           /\ ~turn'.raised
           /\ reminders' = reminders
           /\ events' = events ]_vars

\* C2's case: a "no" in upper case was answered with the cancellation while
\* a plan was pending.
C2_Witness ==
    /\ turn.query = "NO"
    /\ ~turn.raised
    /\ turn.response = [intent |-> "calendar",
                        message |-> "Okay, I cancelled the reminder."]
    /\ PendingOf(user_state, turn.user) = None

\* C3: a user's pending plan is replaced or removed only by a yes/no
\* confirmation turn; a calendar request made while a plan is pending does
\* not overwrite it.
C3_PendingChangesOnlyByConfirmation ==
    [][ LET u == turn'.user IN
        (TookTurn /\ PendingOf(user_state, u) # None
            /\ PendingOf(user_state', u) # PendingOf(user_state, u))
        => turn'.intent = "confirmation" ]_vars

\* C4: every plan stored as pending is passed to execute at most once,
\* whatever the external calendar and the store's file do: after a "yes" the
\* plan is no longer pending.
C4_PlanExecutedAtMostOnce ==
    [][ /\ \A u \in Users : plan_execs'[u] <= 1
        /\ (TookTurn /\ IsYes(turn'.query))
               => PendingOf(user_state', turn'.user) = None ]_vars

\* C5: a profile, evidence, product, routine, followup_products or none turn
\* leaves the pending plan as it is, and a "yes" executes exactly the stored
\* plan, payload included.
C5_OtherTurnsKeepThePlan ==
    [][ LET u == turn'.user IN
        /\ (TookTurn /\ turn'.intent \in { "profile", "evidence", "product",
                                            "routine", "followup_products",
                                            "none" })
              => PendingOf(user_state', u) = PendingOf(user_state, u)
        /\ (TookTurn /\ IsYes(turn'.query) /\ PendingOf(user_state, u) # None)
              => /\ turn'.executed = PendingOf(user_state, u)
                 /\ "execute" \in turn'.handlers ]_vars

\* C5's case: a calendar request was planned, a turn of another intent came
\* in between, and the "yes" after it executed the plan of the first turn.
C5_Witness ==
    /\ "u1" \in DOMAIN conversation_memory
    /\ Len(conversation_memory["u1"]) = 6
    /\ \A i \in { 1, 3, 5 } : conversation_memory["u1"][i].role = "user"
    /\ intent_of[conversation_memory["u1"][1].message] = "calendar"
    /\ conversation_memory["u1"][2].message.intent = "calendar_plan"
    /\ intent_of[conversation_memory["u1"][3].message]
            \in { "profile", "evidence", "product", "routine",
                  "followup_products", "none" }
    /\ IsYes(turn.query)
    /\ turn.executed # None
    /\ turn.executed.question = conversation_memory["u1"][1].message
    /\ turn.executed = conversation_memory["u1"][2].message.plan

\* C6: every turn the gate does not block appends exactly one entry, the
\* user's message with the assistant's response, to the user's
\* conversation history.
C6_TurnAppendsToHistory ==
    [][ LET u == turn'.user IN
        (TookTurn /\ turn'.safe = "safe" /\ ~turn'.raised)
        => conversation_history'[u] =
              Append(HistoryOf(conversation_history, u),
                     [user |-> turn'.query, assistant |-> turn'.response]) ]_vars

\* C7: after an evidence, product or routine turn the matching cached result
\* is the result returned in that turn, and the other two cached results and
\* the pending plan are unchanged.
C7_ResultIsCached ==
    [][ LET u      == turn'.user
            before == StateOf(user_state, u)
            after  == StateOf(user_state', u)
        IN
        /\ (TookTurn /\ turn'.intent = "evidence" /\ ~turn'.raised)
              => /\ after.last_evidence = turn'.response.evidence
                 /\ after.last_products = before.last_products
                 /\ after.last_routine = before.last_routine
                 /\ after.pending_calendar_plan = before.pending_calendar_plan
        /\ (TookTurn /\ turn'.intent = "product" /\ ~turn'.raised)
              => /\ after.last_products = turn'.response.products
                 /\ after.last_evidence = before.last_evidence
                 /\ after.last_routine = before.last_routine
                 /\ after.pending_calendar_plan = before.pending_calendar_plan
        /\ (TookTurn /\ turn'.intent = "routine" /\ ~turn'.raised)
              => /\ after.last_routine = turn'.response.routine
                 /\ after.last_evidence = before.last_evidence
                 /\ after.last_products = before.last_products
                 /\ after.pending_calendar_plan = before.pending_calendar_plan
      ]_vars

\* C7's case: an evidence turn returned its result while products were cached
\* and a plan was pending.
C7_Witness ==
    /\ turn.intent = "evidence"
    /\ ~turn.raised
    /\ StateOf(user_state, turn.user).last_evidence = turn.response.evidence
    /\ StateOf(user_state, turn.user).last_products # None
    /\ PendingOf(user_state, turn.user) # None

\* C8: a turn the gate blocks calls no handler and leaves the user's
\* profile, cached results, pending plan and the gate's last safe text
\* unchanged; a plan pending before it is pending after it.
C8_BlockedTurnChangesNothing ==
    [][ LET u == turn'.user IN
        (TookTurn /\ turn'.safe # "safe")
        => /\ turn'.handlers = { }
           /\ turn'.executed = None
           /\ StateOf(user_state', u) = StateOf(user_state, u)
           /\ last_safe_text' = last_safe_text
           /\ profile_db' = profile_db
           /\ reminders' = reminders
           /\ events' = events ]_vars

\* C8's case: a turn was blocked while a plan was pending and a safe text
\* was remembered.
C8_Witness ==
    /\ turns > 0
    /\ turn.safe # "safe"
    /\ turn.response = [intent |-> "unsafe", message |-> DEFLECTION]
    /\ PendingOf(user_state, turn.user) # None
    /\ last_safe_text # None

\* C9: for every text that holds a trigger phrase in any letter case,
\* intercept returns the deflection message and run answers with intent
\* "unsafe" without calling classify_intent.
C9_TriggerTextIsBlocked ==
    (turns > 0 /\ HasTrigger(turn.query))
    => /\ turn.safe = DEFLECTION
       /\ ~turn.raised
       /\ turn.response = [intent |-> "unsafe", message |-> DEFLECTION]
       /\ ~turn.classified
       /\ turn.handlers = { }

\* C9's case: a text holding a trigger phrase in mixed case was blocked.
C9_Witness ==
    /\ turns > 0
    /\ turn.query = "Vision LOSS"
    /\ turn.response = [intent |-> "unsafe", message |-> DEFLECTION]

\* C10: for every text without a trigger phrase, the empty string included,
\* intercept returns "safe" and get_last_safe_text() then returns exactly
\* that text.
C10_SafeTextIsRemembered ==
    (turns > 0 /\ ~HasTrigger(turn.query))
    => /\ turn.safe = "safe"
       /\ last_safe_text = [text |-> turn.query]

\* C10's case: the empty string passed the gate after another safe text and
\* is the text remembered.
C10_Witness ==
    /\ turns > 1
    /\ turn.query = ""
    /\ turn.safe = "safe"
    /\ last_safe_text = [text |-> ""]
    /\ conversation_memory["u1"][1].message = "I have dry skin and want a moisturizer."

C12_OtherUsersTurnCanStart ==
    \A u \in Users :
        (loop.user = u /\ turns < MaxUserTurns)
        => \A v \in Users \ { u } :
              \E q \in UserTexts :
                  ENABLED (EnterCall(v, q) \/ WholeTurn(v, q))

\* The rules the specification gives for the classification of a text t
\* (lower case): which keywords it holds.
HoldsCalendarKey(t) ==
    \E k \in { "remind", "at ", "schedule", "alarm" } : Contains(t, k)

HoldsIngredient(t) == \E i \in ING : Contains(t, i)

HoldsProductOrRoutineKey(t) ==
    \E k \in { "suggest", "recommend", "routine" } : Contains(t, k)

HoldsFollowUp(t) ==
    \E k \in { "those products", "them", "that routine", "that evidence" } :
        Contains(t, k)

ExactConfirmation(t) == t \in { "yes", "no", "y", "n" }

\* The text names an ingredient together with a product or routine keyword
\* and meets no rule of higher priority.
mixed_of ==
    [q \in AllTexts |->
        LET t == lower_of[q] IN
        /\ HoldsIngredient(t)
        /\ HoldsProductOrRoutineKey(t)
        /\ ~ExactConfirmation(t)
        /\ ~HoldsCalendarKey(t)
        /\ ~Contains(t, "profile")
        /\ ~HoldsFollowUp(t)] @@ << >>

\* The text holds a calendar keyword and is not exactly yes/no/y/n.
calendar_of ==
    [q \in AllTexts |->
        LET t == lower_of[q] IN
        HoldsCalendarKey(t) /\ ~ExactConfirmation(t)] @@ << >>

\* C13: a turn whose text is of the compound mixed_condition kind invokes the
\* evidence handler and the product handler, and its response holds the
\* results of both.
C13_MixedTurnRunsBothHandlers ==
    (turns > 0 /\ turn.safe = "safe" /\ ~turn.raised /\ mixed_of[turn.query])
    => /\ { "evidence", "product" } \subseteq turn.handlers
       /\ { "evidence", "products" } \subseteq DOMAIN turn.response

\* C14: classify_intent returns mixed_condition for every text that names an
\* ingredient together with a product keyword or the routine keyword and
\* meets no rule of higher priority.
C14_MixedTextIsMixedCondition ==
    (turns > 0 /\ turn.classified /\ mixed_of[turn.query])
    => turn.intent = "mixed_condition"

PlannedIn(t) ==
    IF t.executed # None THEN t.executed
    ELSE IF "plan" \in DOMAIN t.response THEN t.response.plan
    ELSE None

\* C16: a delete plan needs confirmation exactly when its matches are not
\* empty; with no matches the orchestrator executes at once, the result's
\* status is no_matches, the reminder store and the external calendar are
\* unchanged and the plan does not become pending.
C16_DeleteAsksOnlyWithMatches ==
    [][ LET u  == turn'.user
            pl == PlannedIn(turn')
        IN
        (TookTurn /\ turn'.intent = "calendar" /\ pl # None
            /\ pl.intent = "delete")
        => /\ pl.needs_confirmation <=> (pl.payload.matches # << >>)
           /\ (pl.payload.matches = << >>)
                => /\ "execute" \in turn'.handlers
                   /\ ~turn'.raised
                   /\ turn'.response.result.status = "no_matches"
                   /\ reminders' = reminders
                   /\ events' = events
                   /\ PendingOf(user_state', u) = PendingOf(user_state, u)
                   /\ PendingOf(user_state', u) # pl
           /\ (pl.payload.matches # << >>)
                => /\ "execute" \notin turn'.handlers
                   /\ PendingOf(user_state', u) = pl ]_vars

\* C16's case: a deletion request without matches was executed at once with
\* status no_matches while an earlier delete plan with matches was pending.
C16_Witness ==
    /\ turn.intent = "calendar"
    /\ turn.executed # None
    /\ turn.executed.intent = "delete"
    /\ turn.executed.payload.matches = << >>
    /\ ~turn.raised
    /\ turn.response.result.status = "no_matches"
    /\ PendingOf(user_state, turn.user) # None
    /\ PendingOf(user_state, turn.user).intent = "delete"
    /\ PendingOf(user_state, turn.user).payload.matches # << >>

\* The step is a call of plan, or a call of execute.
PlanStep == TookTurn /\ call'.reply # None /\ ~call'.executed

ExecStep == TookTurn /\ call'.executed

\* C17: whatever the title matcher replies, the matches of a delete plan are
\* among the titles of the reminders stored when plan() ran.
C17_MatchesAreStoredTitles ==
    [][ (PlanStep /\ call'.plan # None /\ call'.plan.intent = "delete")
        => Range(call'.plan.payload.matches)
              \subseteq { reminders[i].title : i \in 1..Len(reminders) } ]_vars

\* C17's case: the matcher named a stored title, a title never stored and a
\* title deleted before; the plan holds the stored title only.
C17_Witness ==
    /\ call.plan # None
    /\ ~call.executed
    /\ call.plan.intent = "delete"
    /\ call.plan.payload = [matches |-> << AM >>, confidence |-> "low",
                            explanation |-> "all"]
    /\ Len(reminders) = 1

\* C18: execute on a delete plan with selected_titles deletes only reminders
\* whose titles are among the plan's matches.
C18_SelectionStaysWithinMatches ==
    [][ (ExecStep /\ call'.plan.intent = "delete"
            /\ call'.selected_titles # << >>)
        => \A i \in 1..Len(reminders) :
              (reminders[i] \notin Range(reminders'))
              => reminders[i].title \in Range(call'.plan.payload.matches) ]_vars

\* C19: when the request classifier sets all_reminders, the matches of the
\* delete plan are all the titles stored, whatever the title matcher replies.
C19_AllRemindersMatchesAll ==
    (call.reply # None /\ call.plan # None /\ call.plan.intent = "delete"
        /\ Get(call.reply.data, "all_reminders", FALSE))
    => Range(call.plan.payload.matches) = Range(call.titles)

\* C20: execute with confirm=False on a create, delete or update plan
\* returns status "cancelled" and leaves the reminder store and the external
\* calendar unchanged.
C20_UnconfirmedIsCancelled ==
    [][ (ExecStep /\ ~call'.confirm
            /\ call'.plan.intent \in { "create", "delete", "update" })
        => /\ ~call'.raised
           /\ call'.result.status = "cancelled"
           /\ reminders' = reminders
           /\ events' = events
           /\ ids' = ids ]_vars

\* C20's case: a delete plan with matches was executed unconfirmed with its
\* matches selected; the call was cancelled and the reminders are all stored.
C20_Witness ==
    /\ call.executed
    /\ ~call.confirm
    /\ call.plan.intent = "delete"
    /\ call.plan.payload.matches = << PM >>
    /\ call.selected_titles = << PM >>
    /\ call.result = [question |-> Question, intent |-> "delete",
                      status |-> "cancelled",
                      details |-> "User did not confirm."]
    /\ reminders = InitialReminders

\* The titles an execute call is to delete: the selection, or else the
\* plan's matches.
Targeted(c) ==
    IF c.selected_titles # << >> THEN Range(c.selected_titles)
    ELSE Range(c.plan.payload.matches)

\* C21: in execute of a delete plan, failures of the external calendar's
\* delete call do not stop the deletion: every reminder with a targeted
\* title is removed from the store, the reminders with other titles are
\* kept, and the result's status is "deleted".
C21_FailedRemoteDeleteStillDeletes ==
    [][ (ExecStep /\ call'.confirm /\ call'.plan.intent = "delete"
            /\ Targeted(call') # { } /\ call'.outcome.save = "ok")
        => /\ ~call'.raised
           /\ call'.result.status = "deleted"
           /\ reminders' = SelectSeq(reminders,
                                     LAMBDA r : r.title \notin Targeted(call')) ]_vars

\* C21's case: the delete call for the PM reminder's event failed (the event
\* is still in the calendar); the reminder is gone from the store, the AM
\* reminder is kept and the status is "deleted".
C21_Witness ==
    /\ call.executed
    /\ call.plan.intent = "delete"
    /\ call.outcome.delete_fail = { 1, 2 }
    /\ ~call.raised
    /\ call.result.status = "deleted"
    /\ call.result.deleted_titles = << PM >>
    /\ Len(reminders) = 1
    /\ reminders[1].title = AM
    /\ events = { 1, 2 }

\* C22: whatever the text and whatever the collaborators do (completion
\* reply, calendar call, store write), run returns a structured response and
\* no exception leaves it.
C22_RunAlwaysAnswers ==
    turns > 0 => (~turn.raised /\ turn.response # None)

\* C23: for every string a completion returns, the steps that read JSON from
\* it (the request classifier and the title matcher of plan) fall back to a
\* default and raise nothing to their caller.
C23_ParsingNeverRaises ==
    (call.reply # None /\ ~call.executed
        /\ call.reply.shape # "error" /\ call.match_reply.shape # "error")
    => (~call.raised /\ call.plan # None)

\* The request was classified as an update, or the plan executed is an
\* update plan.
AsksUpdate(c) ==
    \/ c.reply # None /\ Get(c.reply.data, "intent", "create") = "update"
    \/ c.plan # None /\ c.plan.intent = "update"

\* C24: a calendar request classified as "update" creates, deletes and
\* changes no reminder and no calendar event and ends with status
\* "not_implemented", through plan and confirmation as through execute alone.
C24_UpdateChangesNothing ==
    [][ (ExecStep /\ call'.confirm /\ AsksUpdate(call'))
        => /\ reminders' = reminders
           /\ events' = events
           /\ ~call'.raised
           /\ call'.result.status = "not_implemented" ]_vars

\* C26: every response run returns, on every path, holds an "intent" field.
C26_ResponseHasIntent ==
    (turns > 0 /\ ~turn.raised) => "intent" \in DOMAIN turn.response

\* C27: plan changes neither the reminder store nor the external calendar,
\* whatever the request and the intent it is classified as, however often it
\* is called.
C27_PlanChangesNothing ==
    [][ PlanStep
        => /\ reminders' = reminders
           /\ events' = events
           /\ ids' = ids ]_vars

\* C27's case: plan was called three times, last for a deletion with
\* matches; the store and the calendar are as they were at the start.
C27_Witness ==
    /\ turns = 3
    /\ call.reply # None
    /\ ~call.executed
    /\ call.plan # None
    /\ call.plan.intent = "delete"
    /\ call.plan.payload.matches = << AM, PM >>
    /\ reminders = InitialReminders
    /\ events = { 1, 2 }

\* The text refers to the evidence, or to the routine, of an earlier turn.
refers_to_of ==
    [q \in AllTexts |->
        [evidence |-> Contains(lower_of[q], "that evidence"),
         routine  |-> Contains(lower_of[q], "that routine")]] @@ << >>

\* C25: once an evidence (a routine) result is cached, a later turn of the
\* user that refers to "that evidence" ("that routine") is answered from the
\* cached last_evidence (last_routine), as a "those products" turn is
\* answered from last_products.
C25_FollowUpUsesCachedResult ==
    [][ LET u      == turn'.user
            before == StateOf(user_state, u)
            refers == refers_to_of[turn'.query]
        IN
        (TookTurn /\ turn'.safe = "safe")
        => /\ (refers.evidence /\ before.last_evidence # None)
                => /\ ~turn'.raised
                   /\ turn'.handlers = { }
                   /\ "evidence" \in DOMAIN turn'.response
                   /\ turn'.response.evidence = before.last_evidence
           /\ (refers.routine /\ before.last_routine # None)
                => /\ ~turn'.raised
                   /\ turn'.handlers = { }
                   /\ "routine" \in DOMAIN turn'.response
                   /\ turn'.response.routine = before.last_routine ]_vars

\* The word "at" stands alone in the text t.
HoldsWordAt(t) == Contains(" " \o t \o " ", " at ")

\* The text names an ingredient and asks for no reminder, no profile and
\* refers to no earlier result.
plain_ingredient_of ==
    [q \in AllTexts |->
        LET t == lower_of[q] IN
        /\ HoldsIngredient(t)
        /\ ~ExactConfirmation(t)
        /\ ~\E k \in { "remind", "schedule", "alarm" } : Contains(t, k)
        /\ ~HoldsWordAt(t)
        /\ ~Contains(t, "profile")
        /\ ~HoldsFollowUp(t)] @@ << >>

\* C29: a question that names an ingredient and asks for no reminder, such
\* as "What evidence supports niacinamide?", is classified "evidence", goes
\* to the evidence handler, and its result is stored as last_evidence.
C29_IngredientQuestionIsEvidence ==
    (turns > 0 /\ turn.classified /\ plain_ingredient_of[turn.query])
    => /\ turn.intent = "evidence"
       /\ turn.handlers = { "evidence" }
       /\ ~turn.raised
            => StateOf(user_state, turn.user).last_evidence
                  = turn.response.evidence

\* The product's type holds one of the patterns, whatever the letter case.
TypeHit(product, pats) ==
    \E i \in 1..Len(pats) :
        Contains(Lower(product.product_type), Lower(pats[i]))

\* C28: when product_type is among the searched columns with patterns,
\* search_products returns a product only if its type holds one of these
\* patterns (in any letter case), and returns every such product, once per
\* product_name, also when no pattern of another column matches it.
C28_TypeIsAHardFilter ==
    (turns > 0
        /\ "product_type" \in Range(lookup.columns_to_search)
        /\ "product_type" \in DOMAIN lookup.patterns
        /\ lookup.patterns["product_type"] # << >>)
    => LET pats == lookup.patterns["product_type"]
           res  == lookup.results
       IN
       /\ \A i \in 1..Len(res) :
             res[i] \in Range(Catalog) /\ TypeHit(res[i], pats)
       /\ \A product \in Range(Catalog) :
             TypeHit(product, pats)
             => Cardinality({ i \in 1..Len(res) :
                    res[i].product_name = product.product_name }) = 1

\* C28's case: two products of one name have the type asked for and no
\* pattern of another column matches them; a product of another type has the
\* ingredient asked for.  The first of the two is the result.
C28_Witness ==
    /\ lookup.columns_to_search = << "ingredients", "product_type", "brand" >>
    /\ lookup.patterns = [product_type |-> << "moisturizer" >>,
                          ingredients  |-> << "NIACINAMIDE", "peptide" >>]
    /\ lookup.results = << Catalog[1] >>

\* The fields of a stored reminder (its creation time and the constant
\* source_agent "calendar_agent" are left out): none of them names a user.
ReminderFields ==
    { "id", "title", "description", "datetime", "recurrence",
      "google_event_id" }

\* C30: the reminder store is one for all users and a reminder has no owner:
\* a user's "yes" to a delete plan removes every stored reminder whose title
\* is among the plan's matches, the reminders other users created included.
C30_DeleteIgnoresWhoCreated ==
    [][ /\ \A i \in 1..Len(reminders') : DOMAIN reminders'[i] = ReminderFields
        /\ (TookTurn /\ IsYes(turn'.query) /\ turn'.executed # None
                /\ turn'.executed.intent = "delete" /\ ~turn'.raised)
           => reminders' =
                 SelectSeq(reminders,
                     LAMBDA r : r.title \notin
                                   Range(turn'.executed.payload.matches)) ]_vars

\* C30's case: u2 confirmed a create plan and got reminder 3, titled like a
\* reminder stored before; u1's "yes" to a delete plan removed it together
\* with the other reminders of the matched titles.
C30_Witness ==
    /\ "u2" \in DOMAIN conversation_memory
    /\ Len(conversation_memory["u2"]) = 4
    /\ conversation_memory["u2"][4].role = "assistant"
    /\ "result" \in DOMAIN conversation_memory["u2"][4].message
    /\ conversation_memory["u2"][4].message.result.status = "created"
    /\ conversation_memory["u2"][4].message.result.reminder.id = 3
    /\ conversation_memory["u2"][4].message.result.reminder.title = AM
    /\ turn.user = "u1"
    /\ IsYes(turn.query)
    /\ turn.executed # None
    /\ turn.executed.intent = "delete"
    /\ ~turn.raised
    /\ turn.response.result.deleted_titles = << AM, PM, AM >>
    /\ reminders = << >>

====
